---- MODULE Spec2Model ----
(***************************************************************************)
(* QuickURL: two shells over one idea.  quickurl.py is the line-mode       *)
(* shell (class QuickURL, main), url_generator.py the form shell (class    *)
(* QuickURLApp).  Each keeps a set of named URL templates, persists it as  *)
(* JSON and expands every template by replacing a placeholder token with a *)
(* source URL.                                                             *)
(*                                                                         *)
(* Strings are sequences of one-character strings, so that str.replace,    *)
(* str.strip and the `in` tests of the source are computed, not assumed.   *)
(***************************************************************************)
EXTENDS Integers, Sequences, FiniteSets, TLC

VARIABLES
  shell,          \* which program runs: "line" (quickurl.py) or "form" (url_generator.py)
  fs,             \* the file system: path -> file
  templates,      \* QuickURL.templates
  printed,        \* the generation the last line-mode call printed, if it printed one
  template_rows,  \* QuickURLApp.template_rows, each row the text of its two entries
  results_text,   \* QuickURLApp.results_text
  copy_enabled,   \* state of QuickURLApp.copy_all_btn
  argv,           \* sys.argv[1:] of the last run of main()
  last,           \* the last operation: what was called, with what, and what it reported
  snap            \* the store as it was before an add or at a save, for two-step properties

vars == <<shell, fs, templates, printed, template_rows, results_text,
          copy_enabled, argv, last, snap>>

----------------------------------------------------------------------------
(* Bounds of the model *)

\* most entries a line-mode mapping holds before add of a new name is no longer tried
MaxTemplates == 2
\* most rows the form holds before "+ Add Function" is no longer tried
MaxRows == 2

----------------------------------------------------------------------------
(* Strings *)

Empty == <<>>
Space == <<" ">>

\* the placeholder of quickurl.py
TokenUrl == <<"[","u","r","l","]">>
\* the placeholder of url_generator.py
TokenTunnel == <<"[","y","o","u","r","-","t","u","n","n","e","l","-","u","r","l","]">>

HealthCheck == <<"H","e","a","l","t","h"," ","C","h","e","c","k">>
RunPreview == <<"R","u","n"," ","P","r","e","v","i","e","w">>
HealthTail == <<"/","h","e","a","l","t","h">>
\* the head of the bundled "Run Preview" query, "/preview?code=import%20SwiftUI...":
\* the 200 characters left out hold no "[" and no "]"
PreviewTail == <<"/","p","r","e","v","i","e","w","?","c","o","d","e","=">>
ListWord == <<"l","i","s","t">>
AddWord == <<"a","d","d">>
RemoveWord == <<"r","e","m","o","v","e">>

\* sub in s, as Python's `sub in s`
OccursAt(s, sub, i) == \A k \in 1..Len(sub) : s[i + k - 1] = sub[k]

Contains(s, sub) == \E i \in 1..(Len(s) - Len(sub) + 1) : OccursAt(s, sub, i)

HasChar(s, c) == \E i \in 1..Len(s) : s[i] = c

\* str.strip(): leading and trailing whitespace removed
RECURSIVE LStrip(_)
LStrip(s) == IF s # <<>> /\ Head(s) = " " THEN LStrip(Tail(s)) ELSE s

RECURSIVE RStrip(_)
RStrip(s) ==
  IF s # <<>> /\ s[Len(s)] = " " THEN RStrip(SubSeq(s, 1, Len(s) - 1)) ELSE s

Strip(s) == RStrip(LStrip(s))

\* s.find(old, from): the first place at or after from where old occurs in s, 0
\* when there is none
Find(s, old, from) ==
  LET hits == {i \in from..(Len(s) - Len(old) + 1) : OccursAt(s, old, i)}
  IN IF hits = {} THEN 0 ELSE CHOOSE i \in hits : \A j \in hits : i <= j

\* a mutation of ReplaceFrom: only the first occurrence is replaced
ReplaceFirstOnly(s, old, new, from) ==
  IF Find(s, old, from) = 0 THEN SubSeq(s, from, Len(s))
  ELSE SubSeq(s, from, Find(s, old, from) - 1) \o new
       \o SubSeq(s, Find(s, old, from) + Len(old), Len(s))

\* str.replace(old, new) for a non-empty old, from place `from` on: the occurrences
\* of old, found left to right without overlap, are each replaced by new
RECURSIVE ReplaceFrom(_, _, _, _)
ReplaceFrom(s, old, new, from) ==
  IF Find(s, old, from) = 0 THEN SubSeq(s, from, Len(s))
  ELSE SubSeq(s, from, Find(s, old, from) - 1) \o new
       \o ReplaceFrom(s, old, new, Find(s, old, from) + Len(old))

\* str.replace with an empty old puts new before every character and at the end
RECURSIVE Interleave(_, _)
Interleave(s, new) ==
  IF s = <<>> THEN new ELSE new \o <<Head(s)>> \o Interleave(Tail(s), new)

Replace(s, old, new) ==
  IF old = <<>> THEN Interleave(s, new) ELSE ReplaceFrom(s, old, new, 1)

----------------------------------------------------------------------------
(* Files and JSON *)

ConfigFile == "~/.quickurl_config.json"
TemplatesFile == "~/Desktop/Development/QuickURL/templates.json"
OtherFile == "other.json"
NoPath == ""
Paths == {ConfigFile, TemplatesFile, OtherFile}

\* One entry of a persisted document or of a mapping.  In a JSON object it is a
\* key and its value; in a JSON array it is one item, and ok says the item is an
\* object holding both "function_name" and "template".
Entry(n, p) == [name |-> n, pattern |-> p, ok |-> TRUE]
BadItem(n) == [name |-> n, pattern |-> Empty, ok |-> FALSE]

\* A file: missing; garbage (it exists and open() or json.load raises); object (a
\* JSON object of strings); array (a JSON array of objects).
File(k, items) == [kind |-> k, items |-> items]
Missing == File("missing", <<>>)
Garbage == File("garbage", <<>>)

\* os.path.exists
Exists(f) == f.kind # "missing"

\* with open(path, 'w') as f: json.dump(doc, f): the file after the attempt; w is
\* whether the file could be opened for writing
WriteFile(f, w, doc) == IF w THEN doc ELSE f

Names(items) == {items[i].name : i \in 1..Len(items)}

----------------------------------------------------------------------------
(* Input sets: the strings a user types or passes on the command line *)

Ping == <<"P","i","n","g">>
PingTail == <<"/","p">>
\* a plain base URL, and one with a bracketed IPv6 host
PlainUrl == <<"h">>
BracketUrl == <<"[",":","]">>

NameInputs == {Empty, Ping}
PatternInputs == {Empty, TokenUrl \o PingTail}
SourceInputs == {Empty, Space, PlainUrl}

----------------------------------------------------------------------------
(* What a generation shows: the source, the [name]/URL entries, the total *)

Results(src, entries, total) ==
  [shown |-> TRUE, source |-> src, entries |-> entries, total |-> total]
NoResults == [shown |-> FALSE, source |-> Empty, entries |-> <<>>, total |-> 0]

Generated(n, u) == [name |-> n, url |-> u]

----------------------------------------------------------------------------
(* quickurl.py: class QuickURL *)

\* the built-in defaults of QuickURL.load_templates
QuickURL_defaults ==
  [kind |-> "dict",
   items |-> << Entry(HealthCheck, TokenUrl \o HealthTail),
                Entry(RunPreview, TokenUrl \o PreviewTail) >>]

\* a mutation of QuickURL_load_templates: a file that cannot be parsed leaves an
\* empty mapping instead of the defaults, and a parsed one loses its last entry
QuickURL_load_templates_lossy(f) ==
  IF f.kind = "object"
  THEN [kind |-> "dict", items |-> SubSeq(f.items, 1, Len(f.items) - 1)]
  ELSE IF f.kind = "array" THEN [kind |-> "list", items |-> f.items]
  ELSE [kind |-> "dict", items |-> <<>>]

\* QuickURL.load_templates: whatever json.load returns (a dict for a JSON object,
\* a list for a JSON array), the defaults when the file is missing or the read or
\* the parse raises
QuickURL_load_templates(f) ==
  IF Exists(f) /\ f.kind = "object" THEN [kind |-> "dict", items |-> f.items]
  ELSE IF Exists(f) /\ f.kind = "array" THEN [kind |-> "list", items |-> f.items]
  ELSE QuickURL_defaults

\* json.dump(self.templates, f, indent=2)
JsonDump(st) == File(IF st.kind = "dict" THEN "object" ELSE "array", st.items)

\* a mutation of QuickURL_save_templates: the write is skipped and success reported
QuickURL_save_templates_skipped(st, f, w) ==
  [file |-> f, saved |-> "ok"]

\* QuickURL.save_templates: the file after the call and what was printed
QuickURL_save_templates(st, f, w) ==
  [file |-> WriteFile(f, w, JsonDump(st)),
   saved |-> IF w THEN "ok" ELSE "error"]

\* self.templates[name] = template: an existing key keeps its place
DictSet(items, n, p) ==
  IF n \in Names(items)
  THEN [i \in 1..Len(items) |-> IF items[i].name = n THEN Entry(n, p) ELSE items[i]]
  ELSE Append(items, Entry(n, p))

\* a mutation of DictDel: the first entry is deleted, whatever its name
DictDelFirst(items, n) == Tail(items)

\* del self.templates[name], for a name that is a key
DictDel(items, n) ==
  LET k == CHOOSE i \in 1..Len(items) : items[i].name = n
  IN SubSeq(items, 1, k - 1) \o SubSeq(items, k + 1, Len(items))

\* a mutation of QuickURL_entries: a template without a name or a pattern is skipped
RECURSIVE QuickURL_entries_filtered(_, _)
QuickURL_entries_filtered(items, src) ==
  IF items = <<>> THEN <<>>
  ELSE (IF Head(items).name # Empty /\ Head(items).pattern # Empty
        THEN <<Generated(Head(items).name, Replace(Head(items).pattern, TokenUrl, src))>>
        ELSE <<>>) \o QuickURL_entries_filtered(Tail(items), src)

\* the loop of QuickURL.generate: one [name]/URL entry per item of the mapping
QuickURL_entries(items, src) ==
  [i \in 1..Len(items) |->
     Generated(items[i].name, Replace(items[i].pattern, TokenUrl, src))]

\* a mutation of QuickURL_generate: the source is not tested
QuickURL_generate_anyway(st, src) ==
  IF st.kind # "dict" THEN [printed |-> Results(src, <<>>, 0), report |-> "raised"]
  ELSE [printed |-> Results(src, QuickURL_entries(st.items, src), Len(st.items)),
        report |-> "generated"]

\* QuickURL.generate: what is printed and how the call ends.  A list has no
\* .items(): the header is printed and the AttributeError is not caught.
QuickURL_generate(st, src) ==
  IF src = Empty THEN [printed |-> NoResults, report |-> "no_source"]
  ELSE IF st.kind # "dict" THEN [printed |-> Results(src, <<>>, 0), report |-> "raised"]
  ELSE [printed |-> Results(src, QuickURL_entries(st.items, src), Len(st.items)),
        report |-> "generated"]

\* QuickURL.list_templates
QuickURL_list_templates(st) == IF st.kind # "dict" THEN "raised" ELSE "listed"

\* a mutation of QuickURL_add_template: the entry is set and nothing is saved
QuickURL_add_template_unsaved(st, f, w, n, p) ==
  IF st.kind # "dict"
  THEN [templates |-> st, file |-> f, report |-> "raised", saved |-> "none"]
  ELSE [templates |-> [st EXCEPT !.items = DictSet(st.items, n, p)],
        file |-> f, report |-> "added", saved |-> "ok"]

\* QuickURL.add_template.  A list cannot be indexed by a string: the TypeError is
\* not caught and nothing is saved.
QuickURL_add_template(st, f, w, n, p) ==
  IF st.kind # "dict"
  THEN [templates |-> st, file |-> f, report |-> "raised", saved |-> "none"]
  ELSE LET st2 == [st EXCEPT !.items = DictSet(st.items, n, p)]
           sv == QuickURL_save_templates(st2, f, w)
       IN [templates |-> st2, file |-> sv.file, report |-> "added", saved |-> sv.saved]

\* a mutation of QuickURL_remove_template: the mapping is saved on both branches
QuickURL_remove_template_saving(st, f, w, n) ==
  IF st.kind = "dict" /\ n \in Names(st.items)
  THEN LET st2 == [st EXCEPT !.items = DictDel(st.items, n)]
           sv == QuickURL_save_templates(st2, f, w)
       IN [templates |-> st2, file |-> sv.file, report |-> "removed", saved |-> sv.saved]
  ELSE LET sv == QuickURL_save_templates(st, f, w)
       IN [templates |-> st, file |-> sv.file, report |-> "not_found", saved |-> sv.saved]

\* QuickURL.remove_template.  `name in` a list of objects is False.
QuickURL_remove_template(st, f, w, n) ==
  IF st.kind = "dict" /\ n \in Names(st.items)
  THEN LET st2 == [st EXCEPT !.items = DictDel(st.items, n)]
           sv == QuickURL_save_templates(st2, f, w)
       IN [templates |-> st2, file |-> sv.file, report |-> "removed", saved |-> sv.saved]
  ELSE [templates |-> st, file |-> f, report |-> "not_found", saved |-> "none"]

----------------------------------------------------------------------------
(* url_generator.py: classes URLTemplateRow and QuickURLApp *)

\* a row: the text of its function_entry and of its template_entry
Row(fn, tpl) == [fn |-> fn, tpl |-> tpl]

\* URLTemplateRow.get_data
get_data(row) == [function_name |-> Strip(row.fn), template |-> Strip(row.tpl)]

\* `if function_name and template`, as save_templates and generate_urls test a row
Complete(row) == get_data(row).function_name # Empty /\ get_data(row).template # Empty

\* QuickURLApp.add_default_templates
add_default_templates(rows) ==
  rows \o << Row(HealthCheck, TokenTunnel \o HealthTail),
             Row(RunPreview, TokenTunnel \o PreviewTail) >>

\* the rows appended by the loop of load_templates before item["function_name"] or
\* item["template"] raises, or all of them
RECURSIVE RowsUntilBad(_)
RowsUntilBad(items) ==
  IF items = <<>> \/ ~Head(items).ok THEN <<>>
  ELSE <<Row(Head(items).name, Head(items).pattern)>> \o RowsUntilBad(Tail(items))

\* a mutation of QuickURLApp_load_templates: the rows of the form are kept and the
\* file's rows are appended to them
QuickURLApp_load_templates_appending(rows, filename, files) ==
  LET f == files[IF filename # NoPath THEN filename ELSE TemplatesFile]
      got == IF f.kind = "array" THEN RowsUntilBad(f.items) ELSE <<>>
  IN IF f.kind = "array" /\ Len(got) = Len(f.items)
     THEN [rows |-> rows \o got, report |-> "loaded"]
     ELSE [rows |-> IF rows \o got = <<>> THEN add_default_templates(<<>>) ELSE rows \o got,
           report |-> "load_error"]

\* QuickURLApp.load_templates(filename); NoPath stands for filename=None.  The rows
\* are cleared first.  Iterating a JSON object yields its keys, and indexing a
\* string by "function_name" raises; rows appended before an exception stay.
QuickURLApp_load_templates(rows, filename, files) ==
  LET explicit == filename # NoPath
      f == files[IF explicit THEN filename ELSE TemplatesFile]
      got == IF f.kind = "array" THEN RowsUntilBad(f.items) ELSE <<>>
      returns == \/ f.kind = "array" /\ Len(got) = Len(f.items)
                 \/ f.kind = "object" /\ f.items = <<>>
  IN IF Exists(f) /\ returns
     THEN [rows |-> got, report |-> IF explicit THEN "loaded" ELSE "none"]
     ELSE [rows |-> IF got = <<>> THEN add_default_templates(<<>>) ELSE got,
           report |-> IF Exists(f) /\ explicit THEN "load_error" ELSE "none"]

\* templates_data of save_templates: the rows with a name and a template, trimmed
RECURSIVE templates_data(_)
templates_data(rows) ==
  IF rows = <<>> THEN <<>>
  ELSE (IF Complete(Head(rows))
        THEN <<Entry(get_data(Head(rows)).function_name, get_data(Head(rows)).template)>>
        ELSE <<>>) \o templates_data(Tail(rows))

\* a mutation of QuickURLApp_save_templates: the first record is left out of the file
QuickURLApp_save_templates_short(rows, files, w, choice) ==
  IF templates_data(rows) = <<>> THEN [files |-> files, report |-> "no_templates"]
  ELSE IF choice = NoPath THEN [files |-> files, report |-> "cancelled"]
  ELSE IF w
       THEN [files |-> [files EXCEPT ![choice] = File("array", Tail(templates_data(rows)))],
             report |-> "saved"]
       ELSE [files |-> files, report |-> "save_error"]

\* QuickURLApp.save_templates; choice is what the save dialog returns, NoPath when
\* the user cancels
QuickURLApp_save_templates(rows, files, w, choice) ==
  IF templates_data(rows) = <<>> THEN [files |-> files, report |-> "no_templates"]
  ELSE IF choice = NoPath THEN [files |-> files, report |-> "cancelled"]
  ELSE IF w
       THEN [files |-> [files EXCEPT ![choice] = File("array", templates_data(rows))],
             report |-> "saved"]
       ELSE [files |-> files, report |-> "save_error"]

\* the placeholder generate_urls searches for
Variable(source_url) ==
  IF HasChar(source_url, "[") /\ HasChar(source_url, "]") THEN source_url
  ELSE TokenTunnel

\* a mutation of QuickURLApp_entries: rows are not tested before they are expanded
QuickURLApp_entries_unfiltered(rows, source_url) ==
  [i \in 1..Len(rows) |->
     Generated(get_data(rows[i]).function_name,
               Replace(get_data(rows[i]).template, Variable(source_url), source_url))]

\* the loop of generate_urls: one [name]/URL entry per row with a name and a template
RECURSIVE QuickURLApp_entries(_, _)
QuickURLApp_entries(rows, source_url) ==
  IF rows = <<>> THEN <<>>
  ELSE (IF Complete(Head(rows))
        THEN <<Generated(get_data(Head(rows)).function_name,
                         Replace(get_data(Head(rows)).template,
                                 Variable(source_url), source_url))>>
        ELSE <<>>) \o QuickURLApp_entries(Tail(rows), source_url)

\* len([r for r in self.template_rows if r.get_data()[0]])
NamedRows(rows) ==
  Cardinality({i \in 1..Len(rows) : get_data(rows[i]).function_name # Empty})

\* a mutation of QuickURLApp_generate_urls: the results are cleared before the
\* source is tested
QuickURLApp_generate_urls_clearing(rows, rt, ce, text) ==
  IF Strip(text) = Empty
  THEN [results_text |-> NoResults, copy_enabled |-> ce, report |-> "no_source"]
  ELSE [results_text |-> Results(Strip(text), QuickURLApp_entries(rows, Strip(text)),
                                 NamedRows(rows)),
        copy_enabled |-> TRUE, report |-> "generated"]

\* QuickURLApp.generate_urls; text is what the source entry holds
QuickURLApp_generate_urls(rows, rt, ce, text) ==
  IF Strip(text) = Empty
  THEN [results_text |-> rt, copy_enabled |-> ce, report |-> "no_source"]
  ELSE [results_text |-> Results(Strip(text), QuickURLApp_entries(rows, Strip(text)),
                                 NamedRows(rows)),
        copy_enabled |-> TRUE, report |-> "generated"]

\* a mutation of remove_template_row: the last row can be removed too
remove_template_row_unguarded(rows, i) ==
  [rows |-> SubSeq(rows, 1, i - 1) \o SubSeq(rows, i + 1, Len(rows)),
   report |-> "removed"]

\* QuickURLApp.remove_template_row, for the row at place i
remove_template_row(rows, i) ==
  IF Len(rows) <= 1 THEN [rows |-> rows, report |-> "at_least_one"]
  ELSE [rows |-> SubSeq(rows, 1, i - 1) \o SubSeq(rows, i + 1, Len(rows)),
        report |-> "removed"]

----------------------------------------------------------------------------
(* quickurl.py: interactive_mode and main *)

\* QuickURL.interactive_mode; typed is the line read by input(), clip whether
\* pbcopy ran.  Nothing is reported when the trimmed line is empty.
interactive_mode(st, typed, clip) ==
  LET g == QuickURL_generate(st, Strip(typed))
  IN IF Strip(typed) # Empty
     THEN [printed |-> g.printed, report |-> g.report,
           copied |-> clip /\ g.report = "generated"]
     ELSE [printed |-> NoResults, report |-> "no_input", copied |-> FALSE]

Outcome(op, st, f, pr, report, saved, copied) ==
  [op |-> op, templates |-> st, file |-> f, printed |-> pr, report |-> report,
   saved |-> saved, copied |-> copied]

\* a mutation of main: `list` is tested before the number of arguments
main_list_first(f, w, av, typed, clip) ==
  LET st == QuickURL_load_templates(f)
  IN IF Len(av) >= 1 /\ av[1] = ListWord
     THEN Outcome("list", st, f, NoResults, QuickURL_list_templates(st), "none", FALSE)
     ELSE IF Len(av) = 1
     THEN Outcome("generate", st, f, QuickURL_generate(st, av[1]).printed,
                  QuickURL_generate(st, av[1]).report, "none", FALSE)
     ELSE Outcome("usage", st, f, NoResults, "usage", "none", FALSE)

\* main(): app = QuickURL(), then the dispatch on sys.argv; av is sys.argv[1:]
main(f, w, av, typed, clip) ==
  LET st == QuickURL_load_templates(f)
  IN IF Len(av) = 0
     THEN LET r == interactive_mode(st, typed, clip)
          IN Outcome("interactive", st, f, r.printed, r.report, "none", r.copied)
     ELSE IF Len(av) = 1
     THEN LET r == QuickURL_generate(st, av[1])
          IN Outcome("generate", st, f, r.printed, r.report, "none", FALSE)
     ELSE IF av[1] = ListWord
     THEN Outcome("list", st, f, NoResults, QuickURL_list_templates(st), "none", FALSE)
     ELSE IF av[1] = AddWord /\ Len(av) = 3
     THEN LET r == QuickURL_add_template(st, f, w, av[2], av[3])
          IN Outcome("add", r.templates, r.file, NoResults, r.report, r.saved, FALSE)
     ELSE IF av[1] = RemoveWord /\ Len(av) = 2
     THEN LET r == QuickURL_remove_template(st, f, w, av[2])
          IN Outcome("remove", r.templates, r.file, NoResults, r.report, r.saved, FALSE)
     ELSE Outcome("usage", st, f, NoResults, "usage", "none", FALSE)

\* the argument vectors tried
ArgVectors ==
  {<<>>}
  \cup {<<s>> : s \in SourceInputs \cup {ListWord, AddWord}}
  \cup {<<ListWord, n>> : n \in {Ping}}
  \cup {<<AddWord, n, q>> : n \in NameInputs, q \in PatternInputs}
  \cup {<<RemoveWord, n>> : n \in NameInputs}
  \cup {<<AddWord, Ping>>, <<RemoveWord, Ping, Ping>>, <<Ping, Ping>>}

----------------------------------------------------------------------------
(* The state machine *)

EmptyStore == [kind |-> "dict", items |-> <<>>]

Last(op, viaMain, arg, val, path, report, saved, copied) ==
  [op |-> op, main |-> viaMain, arg |-> arg, val |-> val, path |-> path,
   report |-> report, saved |-> saved, copied |-> copied]

Snap(kind, name, store, rows, path) ==
  [kind |-> kind, name |-> name, store |-> store, rows |-> rows, path |-> path]
SnapNone == Snap("none", Empty, EmptyStore, <<>>, NoPath)

UrlPing == TokenUrl \o PingTail
TunnelPing == TokenTunnel \o PingTail

\* what ~/.quickurl_config.json holds when the line-mode shell starts
ConfigInitFiles ==
  { Missing, Garbage,
    File("object", <<>>),
    File("object", <<Entry(Ping, UrlPing)>>),
    File("array", <<Entry(Ping, TunnelPing)>>) }

\* what templates.json holds when the form starts
TemplatesInitFiles ==
  { Missing, Garbage,
    File("array", <<>>),
    File("array", <<Entry(Ping, TunnelPing)>>),
    File("array", <<Entry(Ping, TunnelPing), BadItem(HealthCheck)>>),
    File("object", <<Entry(Ping, UrlPing)>>) }

LineVars == <<templates, printed, argv>>
FormVars == <<template_rows, results_text, copy_enabled>>

\* the state after QuickURL() or QuickURLApp(root) has been constructed, the
\* program's file holding one of the given documents
Constructed(configs, tfiles) ==
  /\ shell \in {"line", "form"}
  /\ \E c \in configs, t \in tfiles :
       fs = [q \in Paths |->
               IF q = ConfigFile /\ shell = "line" THEN c
               ELSE IF q = TemplatesFile /\ shell = "form" THEN t
               ELSE Missing]
  /\ templates = IF shell = "line" THEN QuickURL_load_templates(fs[ConfigFile])
                 ELSE EmptyStore
  /\ printed = NoResults
  /\ argv = <<>>
  /\ template_rows = IF shell = "form"
                     THEN QuickURLApp_load_templates(<<>>, NoPath, fs).rows
                     ELSE <<>>
  /\ results_text = NoResults
  /\ copy_enabled = FALSE
  /\ last = Last("construct", FALSE, Empty, Empty, NoPath, "none", "none", FALSE)
  /\ snap = SnapNone

Init == Constructed(ConfigInitFiles, TemplatesInitFiles)

(* line-mode shell *)

\* QuickURL(): a new instance loads the templates
Construct ==
  /\ shell = "line"
  /\ templates' = QuickURL_load_templates(fs[ConfigFile])
  /\ last' = Last("construct", FALSE, Empty, Empty, ConfigFile, "none", "none", FALSE)
  /\ snap' = IF snap.kind = "save" THEN [snap EXCEPT !.kind = "save_load"] ELSE SnapNone
  /\ argv' = <<>>
  /\ printed' = NoResults
  /\ UNCHANGED <<shell, fs, FormVars>>

Generate(src) ==
  /\ shell = "line"
  /\ LET r == QuickURL_generate(templates, src)
     IN /\ printed' = r.printed
        /\ last' = Last("generate", FALSE, src, Empty, NoPath, r.report, "none", FALSE)
  /\ snap' = SnapNone
  /\ argv' = <<>>
  /\ UNCHANGED <<shell, fs, templates, FormVars>>

ListTemplates ==
  /\ shell = "line"
  /\ last' = Last("list", FALSE, Empty, Empty, NoPath,
                  QuickURL_list_templates(templates), "none", FALSE)
  /\ snap' = SnapNone
  /\ argv' = <<>>
  /\ printed' = NoResults
  /\ UNCHANGED <<shell, fs, templates, FormVars>>

\* a new name is tried only while the mapping is below the bound
Room(st, n) == st.kind # "dict" \/ n \in Names(st.items) \/ Len(st.items) < MaxTemplates

AddTemplate(n, q, w) ==
  /\ shell = "line"
  /\ Room(templates, n)
  /\ LET r == QuickURL_add_template(templates, fs[ConfigFile], w, n, q)
     IN /\ templates' = r.templates
        /\ fs' = [fs EXCEPT ![ConfigFile] = r.file]
        /\ last' = Last("add", FALSE, n, q, ConfigFile, r.report, r.saved, FALSE)
        /\ snap' = IF r.report = "added"
                   THEN Snap("add", n, templates, <<>>, ConfigFile)
                   ELSE SnapNone
  /\ argv' = <<>>
  /\ printed' = NoResults
  /\ UNCHANGED <<shell, FormVars>>

RemoveTemplate(n, w) ==
  /\ shell = "line"
  /\ LET r == QuickURL_remove_template(templates, fs[ConfigFile], w, n)
     IN /\ templates' = r.templates
        /\ fs' = [fs EXCEPT ![ConfigFile] = r.file]
        /\ last' = Last("remove", FALSE, n, Empty, ConfigFile, r.report, r.saved, FALSE)
        /\ snap' = IF snap.kind = "add" /\ snap.name = n /\ r.report = "removed"
                   THEN [snap EXCEPT !.kind = "add_remove"]
                   ELSE SnapNone
  /\ argv' = <<>>
  /\ printed' = NoResults
  /\ UNCHANGED <<shell, FormVars>>

SaveTemplates(w) ==
  /\ shell = "line"
  /\ LET r == QuickURL_save_templates(templates, fs[ConfigFile], w)
     IN /\ fs' = [fs EXCEPT ![ConfigFile] = r.file]
        /\ last' = Last("save", FALSE, Empty, Empty, ConfigFile, "none", r.saved, FALSE)
        /\ snap' = IF r.saved = "ok"
                   THEN Snap("save", Empty, templates, <<>>, ConfigFile)
                   ELSE SnapNone
  /\ argv' = <<>>
  /\ printed' = NoResults
  /\ UNCHANGED <<shell, templates, FormVars>>

\* one run of the program: python3 quickurl.py av...
Main(av, typed, clip, w) ==
  /\ shell = "line"
  /\ av # <<>> => typed = Empty /\ ~clip
  /\ ~(Len(av) >= 1 /\ av[1] \in {AddWord, RemoveWord}) => w
  /\ Len(av) = 3 /\ av[1] = AddWord => Room(QuickURL_load_templates(fs[ConfigFile]), av[2])
  /\ LET r == main(fs[ConfigFile], w, av, typed, clip)
     IN /\ templates' = r.templates
        /\ fs' = [fs EXCEPT ![ConfigFile] = r.file]
        /\ printed' = r.printed
        /\ last' = Last(r.op, TRUE,
                        IF Len(av) = 0 THEN Strip(typed)
                        ELSE IF Len(av) = 1 THEN av[1]
                        ELSE IF Len(av) >= 2 THEN av[2] ELSE Empty,
                        IF Len(av) >= 3 THEN av[3] ELSE Empty,
                        ConfigFile, r.report, r.saved, r.copied)
  /\ argv' = av
  /\ snap' = SnapNone
  /\ UNCHANGED <<shell, FormVars>>

(* form shell *)

\* what the user types into a row: a name and a template, a name alone, and a
\* blank name with a template
RowInputs == {Row(Ping, TunnelPing), Row(Ping, Empty), Row(Space, TunnelPing)}
\* what the file dialogs return: NoPath when cancelled, else the offered default
DialogChoices == {NoPath, TemplatesFile}

\* "+ Add Function": QuickURLApp.add_template_row appends a row with empty entries
AddTemplateRow ==
  /\ shell = "form"
  /\ Len(template_rows) < MaxRows
  /\ template_rows' = Append(template_rows, Row(Empty, Empty))
  /\ last' = Last("add_row", FALSE, Empty, Empty, NoPath, "none", "none", FALSE)
  /\ snap' = SnapNone
  /\ UNCHANGED <<shell, fs, results_text, copy_enabled, LineVars>>

\* the "-" button of row i
RemoveTemplateRow(i) ==
  /\ shell = "form"
  /\ i \in 1..Len(template_rows)
  /\ LET r == remove_template_row(template_rows, i)
     IN /\ template_rows' = r.rows
        /\ last' = Last("remove_row", FALSE, Empty, Empty, NoPath, r.report, "none", FALSE)
  /\ snap' = SnapNone
  /\ UNCHANGED <<shell, fs, results_text, copy_enabled, LineVars>>

\* the user types into the two entries of row i
EditRow(i, fn, tpl) ==
  /\ shell = "form"
  /\ i \in 1..Len(template_rows)
  /\ template_rows' = [template_rows EXCEPT ![i] = Row(fn, tpl)]
  /\ last' = Last("edit_row", FALSE, Empty, Empty, NoPath, "none", "none", FALSE)
  /\ snap' = SnapNone
  /\ UNCHANGED <<shell, fs, results_text, copy_enabled, LineVars>>

\* "Save Templates"
SaveTemplatesDialog(choice, w) ==
  /\ shell = "form"
  /\ LET r == QuickURLApp_save_templates(template_rows, fs, w, choice)
     IN /\ fs' = r.files
        /\ last' = Last("save", FALSE, Empty, Empty, choice, r.report,
                        IF r.report = "saved" THEN "ok"
                        ELSE IF r.report = "save_error" THEN "error" ELSE "none", FALSE)
        /\ snap' = IF r.report = "saved"
                   THEN Snap("save", Empty, EmptyStore, template_rows, choice)
                   ELSE SnapNone
  /\ UNCHANGED <<shell, template_rows, results_text, copy_enabled, LineVars>>

\* "Load Templates": load_templates_dialog, which loads only when a file is chosen
LoadTemplatesDialog(choice) ==
  /\ shell = "form"
  /\ IF choice = NoPath
     THEN /\ last' = Last("load", FALSE, Empty, Empty, NoPath, "cancelled", "none", FALSE)
          /\ snap' = SnapNone
          /\ UNCHANGED template_rows
     ELSE LET r == QuickURLApp_load_templates(template_rows, choice, fs)
          IN /\ Len(r.rows) <= MaxRows
             /\ template_rows' = r.rows
             /\ last' = Last("load", FALSE, Empty, Empty, choice, r.report, "none", FALSE)
             /\ snap' = IF snap.kind = "save" /\ snap.path = choice
                        THEN [snap EXCEPT !.kind = "save_load"]
                        ELSE SnapNone
  /\ UNCHANGED <<shell, fs, results_text, copy_enabled, LineVars>>

\* "Generate URLs"; text is what the source entry holds
GenerateUrls(text) ==
  /\ shell = "form"
  /\ LET r == QuickURLApp_generate_urls(template_rows, results_text, copy_enabled, text)
     IN /\ results_text' = r.results_text
        /\ copy_enabled' = r.copy_enabled
        /\ last' = Last("generate", FALSE, Strip(text), Empty, NoPath, r.report,
                        "none", FALSE)
  /\ snap' = SnapNone
  /\ UNCHANGED <<shell, fs, template_rows, LineVars>>

\* "Copy All": QuickURLApp.copy_all_results; ok is whether the clipboard took it
CopyAllResults(ok) ==
  /\ shell = "form"
  /\ last' = Last("copy", FALSE, Empty, Empty, NoPath,
                  IF ~results_text.shown THEN "nothing_to_copy"
                  ELSE IF ok THEN "copied" ELSE "copy_error",
                  "none", ok /\ results_text.shown)
  /\ snap' = SnapNone
  /\ UNCHANGED <<shell, fs, template_rows, results_text, copy_enabled, LineVars>>

\* "Clear Results": QuickURLApp.clear_results
ClearResults ==
  /\ shell = "form"
  /\ results_text' = NoResults
  /\ copy_enabled' = FALSE
  /\ last' = Last("clear", FALSE, Empty, Empty, NoPath, "none", "none", FALSE)
  /\ snap' = SnapNone
  /\ UNCHANGED <<shell, fs, template_rows, LineVars>>

LineNext ==
  \/ Construct
  \/ \E src \in SourceInputs : Generate(src)
  \/ ListTemplates
  \/ \E n \in NameInputs, q \in PatternInputs, w \in BOOLEAN : AddTemplate(n, q, w)
  \/ \E n \in NameInputs, w \in BOOLEAN : RemoveTemplate(n, w)
  \/ \E w \in BOOLEAN : SaveTemplates(w)
  \/ \E av \in ArgVectors, typed \in SourceInputs, clip \in BOOLEAN, w \in BOOLEAN :
       Main(av, typed, clip, w)

FormEdits ==
  \/ AddTemplateRow
  \/ \E i \in 1..MaxRows : RemoveTemplateRow(i)
  \/ \E i \in 1..MaxRows, r \in RowInputs : EditRow(i, r.fn, r.tpl)

FormFiles ==
  \/ \E c \in DialogChoices, w \in BOOLEAN : SaveTemplatesDialog(c, w)
  \/ \E c \in DialogChoices : LoadTemplatesDialog(c)

FormResults ==
  \/ \E text \in SourceInputs : GenerateUrls(text)
  \/ \E ok \in BOOLEAN : CopyAllResults(ok)
  \/ ClearResults

Next == LineNext \/ FormEdits \/ FormFiles \/ FormResults

\* both programs, every operation
Spec == Init /\ [][Next]_vars

\* quickurl.py alone
InitLine == Init /\ shell = "line"
SpecLine == InitLine /\ [][LineNext]_vars

\* both programs: the template set is edited and URLs are generated
GenerateNext ==
  \/ \E src \in SourceInputs : Generate(src)
  \/ \E n \in NameInputs, q \in PatternInputs, w \in BOOLEAN : AddTemplate(n, q, w)
  \/ \E n \in NameInputs, w \in BOOLEAN : RemoveTemplate(n, w)
  \/ FormEdits
  \/ FormResults
SpecGenerate == Init /\ [][GenerateNext]_vars

\* both programs: the template set is edited, saved and loaded
PersistNext ==
  \/ Construct
  \/ \E n \in NameInputs, q \in PatternInputs, w \in BOOLEAN : AddTemplate(n, q, w)
  \/ \E n \in NameInputs, w \in BOOLEAN : RemoveTemplate(n, w)
  \/ \E w \in BOOLEAN : SaveTemplates(w)
  \/ FormEdits
  \/ FormFiles
SpecPersist == Init /\ [][PersistNext]_vars

\* both programs started on a file that holds one template, then URLs are
\* generated: the patterns and sources are chosen to exercise str.replace
SubstPatterns(tok) ==
  { Empty, PingTail, tok, tok \o PingTail, tok \o tok,
    PingTail \o tok \o PingTail \o tok,
    SubSeq(tok, 1, Len(tok) - 1),
    SubSeq(tok, 1, 2) \o tok \o SubSeq(tok, 4, Len(tok)),
    BracketUrl \o PingTail }
SubstSources ==
  { Empty, Space, PlainUrl, BracketUrl, PlainUrl \o <<"]">>, <<"r">>, <<"o">>,
    TokenUrl, TokenTunnel }
InitSubst ==
  Constructed({File("object", <<Entry(Ping, q)>>) : q \in SubstPatterns(TokenUrl)},
              {File("array", <<Entry(Ping, q)>>) : q \in SubstPatterns(TokenTunnel)})
SubstNext ==
  \/ \E src \in SubstSources : Generate(src)
  \/ \E text \in SubstSources : GenerateUrls(text)
SpecSubst == InitSubst /\ [][SubstNext]_vars

----------------------------------------------------------------------------
(* Properties *)

\* the entries of a mapping other than the one named n, in order
Others(items, n) == SelectSeq(items, LAMBDA e : e.name # n)

\* the persisted document is the JSON object of the in-memory mapping
Agree == fs[ConfigFile].kind = "object" /\ fs[ConfigFile].items = templates.items

\* the placeholder each program documents
Token == IF shell = "line" THEN TokenUrl ELSE TokenTunnel

\* the places where tok occurs in s as a left-to-right scan without overlap finds them
Occurrences(s, tok) ==
  LET c[i \in 0..Len(s)] ==
        /\ i >= 1
        /\ i + Len(tok) - 1 <= Len(s)
        /\ OccursAt(s, tok, i)
        /\ \A j \in 1..(i - 1) : j > i - Len(tok) => ~c[j]
  IN {i \in 1..Len(s) : c[i]}

\* out is pat with src at each place where tok occurred and the rest of pat kept
SourceAtTokenPlaces(pat, out, src, tok) ==
  LET occ == Occurrences(pat, tok)
      d == Len(src) - Len(tok)
      Before(i) == Cardinality({q \in occ : q < i})
  IN /\ Len(out) = Len(pat) + Cardinality(occ) * d
     /\ \A q \in occ :
          SubSeq(out, q + Before(q) * d, q + Before(q) * d + Len(src) - 1) = src
     /\ \A i \in 1..Len(pat) :
          (\A q \in occ : i < q \/ i >= q + Len(tok))
            => out[i + Before(i) * d] = pat[i]
     /\ occ = {} => out = pat

\* every occurrence of tok in out overlaps a copy of src put there by the replacement
OnlyAcrossInserted(pat, out, src, tok) ==
  LET occ == Occurrences(pat, tok)
      d == Len(src) - Len(tok)
      Before(i) == Cardinality({q \in occ : q < i})
  IN \A i \in 1..(Len(out) - Len(tok) + 1) :
       OccursAt(out, tok, i) =>
         \E q \in occ : /\ i <= q + Before(q) * d + Len(src) - 1
                        /\ q + Before(q) * d <= i + Len(tok) - 1

NoCommonChar(s, t) == \A i \in 1..Len(s), j \in 1..Len(t) : s[i] # t[j]

\* the templates a generation expands, and what it showed
Expanded ==
  IF shell = "line" THEN [i \in 1..Len(templates.items) |-> templates.items[i].pattern]
  ELSE LET rows == SelectSeq(template_rows,
                             LAMBDA r : Strip(r.fn) # Empty /\ Strip(r.tpl) # Empty)
       IN [i \in 1..Len(rows) |-> Strip(rows[i].tpl)]
Shown == IF shell = "line" THEN printed ELSE results_text
JustGenerated == last.op = "generate" /\ last.report = "generated"

\* C1: substitution is total replacement in both programs: every generated URL
\* has source_url at each former place of the documented token ([url] in the
\* line-mode shell, [your-tunnel-url] in the form), and no occurrence of the token
\* remains unless source_url contains the token; a pattern without the token is
\* returned unchanged.
C1_TotalReplacement ==
  JustGenerated =>
    /\ Len(Shown.entries) = Len(Expanded)
    /\ \A i \in 1..Len(Expanded) :
         /\ SourceAtTokenPlaces(Expanded[i], Shown.entries[i].url, Shown.source, Token)
         /\ ~Contains(Shown.source, Token) => ~Contains(Shown.entries[i].url, Token)

\* C1 as amended: in the line-mode shell, and in the form when source_url does
\* not hold both "[" and "]", every generated URL has source_url at each former
\* place of the token and the rest of the pattern unchanged, and any occurrence of
\* the token left in it overlaps an inserted copy of source_url (so none is left
\* when source_url has no character in common with the token).  In the form, a
\* source_url holding both "[" and "]" is itself searched for instead of the
\* token, and every pattern is returned unchanged.
C1_ReplacementByVariant ==
  JustGenerated =>
    /\ Len(Shown.entries) = Len(Expanded)
    /\ \A i \in 1..Len(Expanded) :
         IF shell = "form" /\ HasChar(Shown.source, "[") /\ HasChar(Shown.source, "]")
         THEN Shown.entries[i].url = Expanded[i]
         ELSE /\ SourceAtTokenPlaces(Expanded[i], Shown.entries[i].url,
                                     Shown.source, Token)
              /\ OnlyAcrossInserted(Expanded[i], Shown.entries[i].url,
                                    Shown.source, Token)
              /\ NoCommonChar(Shown.source, Token)
                   => ~Contains(Shown.entries[i].url, Token)

\* a pattern holding the token twice, expanded with a plain URL
C1_Witness ==
  /\ JustGenerated
  /\ Shown.source = PlainUrl
  /\ Len(Expanded) = 1
  /\ Cardinality(Occurrences(Expanded[1], Token)) = 2
  /\ Shown.entries[1].url # Expanded[1]

\* C2: main() dispatches on its argument vector: none is interactive mode, one
\* argument generates for it, `list` lists the templates and generates nothing,
\* `add <name> <template>` adds, `remove <name>` removes, anything else prints the
\* usage summary.
C2_Dispatch ==
  last.main =>
    /\ argv = <<>> => last.op = "interactive"
    /\ argv = <<ListWord>> => last.op = "list" /\ ~printed.shown
    /\ Len(argv) = 1 /\ argv # <<ListWord>> => last.op = "generate" /\ last.arg = argv[1]
    /\ Len(argv) = 3 /\ argv[1] = AddWord => last.op = "add"
    /\ Len(argv) = 2 /\ argv[1] = RemoveWord => last.op = "remove"
    /\ Len(argv) = 2 /\ argv[1] \notin {RemoveWord, ListWord} => last.op = "usage"
    /\ Len(argv) = 3 /\ argv[1] \notin {AddWord, ListWord} => last.op = "usage"

\* the dispatch of C2 apart from the one-word command `list`
C2_DispatchApartFromList ==
  last.main =>
    /\ argv = <<>> => last.op = "interactive"
    /\ Len(argv) = 1 => last.op = "generate" /\ last.arg = argv[1]
    /\ Len(argv) >= 2 /\ argv[1] = ListWord => last.op = "list" /\ ~printed.shown
    /\ Len(argv) = 3 /\ argv[1] = AddWord => last.op = "add"
    /\ Len(argv) = 2 /\ argv[1] = RemoveWord => last.op = "remove"
    /\ Len(argv) = 2 /\ argv[1] \notin {RemoveWord, ListWord} => last.op = "usage"
    /\ Len(argv) = 3 /\ argv[1] \notin {AddWord, ListWord} => last.op = "usage"

\* the file the last load read, and whether it holds the program's own format
LoadedFile ==
  IF shell = "line" THEN fs[ConfigFile]
  ELSE IF last.op = "load" THEN fs[last.path] ELSE fs[TemplatesFile]
WellFormed(f) ==
  IF shell = "line" THEN f.kind = "object"
  ELSE f.kind = "array" /\ \A i \in 1..Len(f.items) : f.items[i].ok
JustLoaded ==
  \/ last.op = "construct"
  \/ shell = "form" /\ last.op = "load" /\ last.path # NoPath
StoreNames ==
  IF shell = "line" THEN [i \in 1..Len(templates.items) |-> templates.items[i].name]
  ELSE [i \in 1..Len(template_rows) |-> template_rows[i].fn]

\* C3: in both programs, a load from a file that is missing, unreadable or not in
\* the program's format leaves exactly the two defaults, "Health Check" and "Run
\* Preview", in that order: nothing of the bad file and nothing of the previous
\* state survives.
C3_LoadFallback ==
  JustLoaded /\ ~WellFormed(LoadedFile) =>
    /\ shell = "line" => templates.kind = "dict"
    /\ StoreNames = <<HealthCheck, RunPreview>>

\* the part of C3 that holds: a file that is missing, or that cannot be opened or
\* parsed as JSON, leaves exactly the two defaults
C3_MissingOrUnparsable ==
  JustLoaded /\ LoadedFile.kind \in {"missing", "garbage"} =>
    /\ shell = "line" => templates.kind = "dict"
    /\ StoreNames = <<HealthCheck, RunPreview>>

\* the templates a generation should count, by the claim: those with a name and a
\* pattern
BothNonEmpty ==
  IF shell = "line"
  THEN {i \in 1..Len(templates.items) :
          templates.items[i].name # Empty /\ templates.items[i].pattern # Empty}
  ELSE {i \in 1..Len(template_rows) :
          Strip(template_rows[i].fn) # Empty /\ Strip(template_rows[i].tpl) # Empty}

\* C4: for a non-empty source and a non-empty template set, a generation yields as
\* many (name, URL) results as there are templates with a non-empty name and a
\* non-empty pattern, in the line-mode shell and in the form.
C4_ResultCount ==
  JustGenerated /\ StoreNames # <<>> =>
    Len(Shown.entries) = Cardinality(BothNonEmpty)

\* C4 as amended: the line-mode generate yields one result per template of the
\* mapping, whatever its name and pattern; the form's generate_urls yields one
\* result per row whose trimmed name and trimmed pattern are both non-empty.
C4_ResultCountByVariant ==
  JustGenerated =>
    /\ shell = "line" => Len(printed.entries) = Len(templates.items)
    /\ shell = "form" => Len(results_text.entries) = Cardinality(BothNonEmpty)

\* a line-mode generation over a mapping that holds a template with an empty
\* pattern beside a full one
C4_Witness ==
  /\ JustGenerated /\ shell = "line"
  /\ Len(templates.items) = 2
  /\ Cardinality(BothNonEmpty) = 1
  /\ Len(printed.entries) = 2

\* what the rows of the form read as
RowsData(rows) == [i \in 1..Len(rows) |-> get_data(rows[i])]

\* C5: saving a template set and loading it from the same path yields an equal
\* set: same names and patterns, and in the form the same rows in the same order
\* and number.
C5_RoundTrip ==
  snap.kind = "save_load" =>
    /\ shell = "line" => templates = snap.store
    /\ shell = "form" => RowsData(template_rows) = RowsData(snap.rows)

\* C5 as amended: a successful save followed by a load from the same path yields,
\* in the line-mode shell, an equal mapping; in the form, the rows that had a
\* non-empty trimmed name and template, trimmed, in their order: rows lacking
\* either are not saved, so the row count can drop.
C5_RoundTripOfCompleteRows ==
  snap.kind = "save_load" =>
    /\ shell = "line" => templates = snap.store
    /\ shell = "form" =>
         /\ RowsData(template_rows) =
              RowsData(SelectSeq(snap.rows,
                                 LAMBDA r : Strip(r.fn) # Empty /\ Strip(r.tpl) # Empty))
         /\ \A i \in 1..Len(template_rows) :
              /\ template_rows[i].fn = Strip(template_rows[i].fn)
              /\ template_rows[i].tpl = Strip(template_rows[i].tpl)

\* the form saved two rows, one of them without a template, and loaded one back
C5_Witness ==
  /\ snap.kind = "save_load" /\ shell = "form"
  /\ Len(snap.rows) = 2
  /\ Len(template_rows) = 1
  /\ last.op = "load" /\ last.report = "loaded"

\* C9: a generation with an empty source (in the form: empty once trimmed) is
\* reported, produces no URL, and leaves the template set, the files and the
\* results already displayed unchanged, so that a later generation finds the state
\* the failed one found.
C9_EmptySource ==
  [][ (last'.op = "generate" /\ last'.arg = Empty)
      => /\ last'.report = "no_source"
         /\ ~printed'.shown
         /\ fs' = fs
         /\ ~last'.main => templates' = templates
         /\ template_rows' = template_rows
         /\ results_text' = results_text
         /\ copy_enabled' = copy_enabled ]_vars

\* the form refused a blank source while results of an earlier generation were shown
C9_Witness ==
  /\ shell = "form"
  /\ last.op = "generate" /\ last.report = "no_source"
  /\ results_text.shown /\ results_text.entries # <<>>

\* C10: the form never has zero template rows, after construction and after any
\* add-row, remove-row and load.
C10_AtLeastOneRow ==
  shell = "form" => Len(template_rows) >= 1

\* C6: add(n, p) followed by remove(n) leaves the in-memory mapping as it was
\* before the add, for every mapping, n and p.
C6_AddRemoveIdentity ==
  snap.kind = "add_remove" => templates = snap.store

\* C6 as amended: add(n, p) followed by remove(n) leaves the mapping without n and
\* with every other entry as before the add, so it is the identity exactly when n
\* was not a name of the mapping before the add.
C6_AddRemoveDropsName ==
  snap.kind = "add_remove" =>
    /\ templates.items = Others(snap.store.items, snap.name)
    /\ snap.name \notin Names(snap.store.items) => templates = snap.store
    /\ snap.name \in Names(snap.store.items) => templates # snap.store

\* add of a new name to a non-empty mapping, then remove of that name
C6_Witness ==
  /\ snap.kind = "add_remove"
  /\ snap.store.items # <<>>
  /\ snap.name \notin Names(snap.store.items)
  /\ last.op = "remove" /\ last.report = "removed"

C8_RemoveAbsent ==
  [][ /\ ( /\ last'.op = "remove" /\ ~last'.main
           /\ (templates.kind # "dict" \/ last'.arg \notin Names(templates.items)) )
         => /\ last'.report = "not_found"
            /\ templates' = templates
      /\ (last'.op = "remove" /\ last'.report = "not_found")
         => /\ fs' = fs
            /\ last'.saved = "none" ]_vars

\* remove of an absent name while no file exists
C8_Witness ==
  /\ last.op = "remove" /\ ~last.main /\ last.report = "not_found"
  /\ fs[ConfigFile] = Missing
  /\ templates.items # <<>>

\* C11: the total a generation reports equals the number of URLs it emitted: in
\* the form the number in "Total URLs generated: N" and in the success dialog
\* equals the number of [name]/URL entries written to the results, and in the
\* line-mode shell "Total: N URLs generated" equals the number of entries printed.
C11_TotalMatchesEmitted ==
  JustGenerated => Shown.total = Len(Shown.entries)

\* the part of C11 that the line-mode shell meets: its total is the number of
\* entries it printed
C11_LineTotalMatchesEmitted ==
  JustGenerated /\ shell = "line" => printed.total = Len(printed.entries)

\* the form's total is the number of rows with a name, and is never below the
\* number of entries it wrote
C11_FormTotalCountsNamedRows ==
  JustGenerated /\ shell = "form" =>
    /\ results_text.total = NamedRows(template_rows)
    /\ results_text.total >= Len(results_text.entries)
====
